---- MODULE Spec2Model ----
(***************************************************************************)
(* Critter-Castle: the structural analysis engine of the cat tree designer *)
(* (src/designer/js/structuralAnalysis.js).                                *)
(*                                                                         *)
(* Units.  The source computes in inches and pounds with JavaScript        *)
(* numbers.  The model keeps every quantity exact with integers:           *)
(*   - lengths and positions are in quarter inches (Inch(n) = 4n), the     *)
(*     granularity of the catalog (baseHeight 0.25, 0.5, 0.75, 3.5);       *)
(*   - an extent "centre -/+ width/2" is kept doubled (2*centre -/+ width),*)
(*     i.e. in eighths of an inch, so that halving never leaves integers;  *)
(*   - weights and loads are in tenths of a pound, the precision           *)
(*     calculatePieceWeight rounds to;                                     *)
(*   - ratios (stressLevel, maxCatWeight) are records [num, den].          *)
(***************************************************************************)
EXTENDS Integers, Sequences, FiniteSets

VARIABLES
    pieces,           \* the piece list handed to the engine
    pc,               \* position in generateStressReport's call chain
    supportMap,       \* analyzeSupportStructure: id -> node
    processingQueue,  \* calculateLoadDistribution: work queue of ids
    processed,        \* calculateLoadDistribution: set of finalized ids
    catWeights,       \* the point-load list
    results,          \* testCatWeights: the result record
    report,           \* generateStressReport: the report it returned last
    lastReport,       \* the report of the call before, kept by the caller
    calls,            \* number of generateStressReport calls that returned
    fnCall,           \* a direct call of one engine function: its arguments
    fnRet,            \* a direct call of one engine function: its results
    groups,           \* usePieceManagement: the groups of the design
    nextId,           \* stands for Date.now() in the ids of new pieces and groups
    opCount,          \* number of piece-management operations carried out
    lastOp            \* the last such operation and the piece list it was applied to

\* what the caller of generateStressReport holds
reportVars == <<report, lastReport, calls>>

\* a direct call of suggestConnection or calculatePieceWeight
fnVars == <<fnCall, fnRet>>

\* what usePieceManagement holds besides the piece list
designVars == <<groups, nextId, opCount, lastOp>>

vars == <<pieces, pc, supportMap, processingQueue, processed, catWeights, results,
          reportVars, fnVars, designVars>>

----------------------------------------------------------------------------
(* Arithmetic helpers *)

Max(a, b) == IF a >= b THEN a ELSE b

Min(a, b) == IF a <= b THEN a ELSE b

Abs(a) == IF a >= 0 THEN a ELSE -a

\* n inches in model length units (quarter inches)
Inch(n) == 4 * n

\* Math.round(n / d) for d > 0: the nearest integer, ties towards +Infinity
MathRound(n, d) == (2 * n + d) \div (2 * d)

RECURSIVE SumSeq(_)
SumSeq(s) == IF s = <<>> THEN 0 ELSE Head(s) + SumSeq(Tail(s))

\* -Infinity, written as a number below every weight and load of the model,
\* so that sums and comparisons with it come out as they do in the source
NegInfinity == -1000000

\* the first entry taken for the maximum
MaxSeqFirst(s) == IF s = <<>> THEN NegInfinity ELSE Head(s)

RECURSIVE MaxSeq(_)
\* Math.max(...s): -Infinity for the empty list
MaxSeq(s) == IF s = <<>> THEN NegInfinity ELSE Max(Head(s), MaxSeq(Tail(s)))

SeqToSet(s) == {s[i] : i \in 1..Len(s)}

----------------------------------------------------------------------------
(* Material table.  density10 = density * 10 / 64 as a fraction: the weight *)
(* in tenths of a pound of one cubic quarter-inch.                          *)

materialStrength ==
    [wood    |-> [baseCapacity |-> 150, densNum |-> 1, densDen |-> 256],
     fabric  |-> [baseCapacity |-> 30,  densNum |-> 1, densDen |-> 1280],
     sisal   |-> [baseCapacity |-> 60,  densNum |-> 3, densDen |-> 1280],
     carpet  |-> [baseCapacity |-> 40,  densNum |-> 1, densDen |-> 800],
     cushion |-> [baseCapacity |-> 20,  densNum |-> 3, densDen |-> 6400]]

\* materialStrength[piece.material] || materialStrength.wood
MaterialOf(piece) ==
    IF piece.material \in DOMAIN materialStrength
    THEN materialStrength[piece.material]
    ELSE materialStrength.wood

----------------------------------------------------------------------------
(* Weight estimator *)

\* Math.PI as a fraction (355/113 agrees with it to 7 decimal places)
PiNum == 355

PiDen == 113

\* volume in cubic quarter-inches, as a fraction [num, den]
PieceVolume(piece) ==
    IF piece.hollow
    THEN \* wallThickness 0.75in: 2 * wallThickness = 6 quarter-inches
         LET outerVolume == piece.width * piece.height * piece.depth
             innerVolume == Max(0, (piece.width - 6) * (piece.height - 6)
                                     * (piece.depth - 6))
         IN  [num |-> outerVolume - innerVolume, den |-> 1]
    ELSE IF piece.shape = "cylinder"
         THEN \* pi * (width/2)^2 * height
              [num |-> PiNum * piece.width * piece.width * piece.height,
               den |-> PiDen * 4]
         ELSE [num |-> piece.width * piece.height * piece.depth, den |-> 1]

\* Math.round(volume * density * 10) / 10, in tenths of a pound
calculatePieceWeight(piece) ==
    LET material == MaterialOf(piece)
        volume   == PieceVolume(piece)
    IN  MathRound(volume.num * material.densNum, volume.den * material.densDen)

RECURSIVE calculateTotalWeight(_)
calculateTotalWeight(ps) ==
    IF ps = <<>> THEN 0
    ELSE calculatePieceWeight(Head(ps)) + calculateTotalWeight(Tail(ps))

----------------------------------------------------------------------------
(* Support-graph builder *)

\* Math.max(0, Math.min(max1, max2) - Math.max(min1, min2))
calculateOverlap(min1, max1, min2, max2) ==
    Max(0, Min(max1, max2) - Max(min1, min2))

\* overlap of the X extents (centre -/+ width/2), doubled: eighths of an inch
OverlapX(lowerPiece, upperPiece) ==
    calculateOverlap(2 * lowerPiece.x - lowerPiece.width,
                     2 * lowerPiece.x + lowerPiece.width,
                     2 * upperPiece.x - upperPiece.width,
                     2 * upperPiece.x + upperPiece.width)

\* overlap of the Z extents (centre -/+ depth/2), doubled: eighths of an inch
OverlapZ(lowerPiece, upperPiece) ==
    calculateOverlap(2 * lowerPiece.z - lowerPiece.depth,
                     2 * lowerPiece.z + lowerPiece.depth,
                     2 * upperPiece.z - upperPiece.depth,
                     2 * upperPiece.z + upperPiece.depth)

\* isSupporting with the overlap comparisons made strict (> 2 instead of >= 2)
isSupportingStrictOverlap(lowerPiece, upperPiece) ==
    /\ Abs(lowerPiece.y + lowerPiece.height - upperPiece.y) <= Inch(1)
    /\ OverlapX(lowerPiece, upperPiece) > 2 * Inch(2)
    /\ OverlapZ(lowerPiece, upperPiece) > 2 * Inch(2)

\* isSupporting with a 1 inch overlap accepted in each direction
isSupportingSmallOverlap(lowerPiece, upperPiece) ==
    /\ Abs(lowerPiece.y + lowerPiece.height - upperPiece.y) <= Inch(1)
    /\ OverlapX(lowerPiece, upperPiece) >= 2 * Inch(1)
    /\ OverlapZ(lowerPiece, upperPiece) >= 2 * Inch(1)

isSupporting(lowerPiece, upperPiece) ==
    LET lowerTop    == lowerPiece.y + lowerPiece.height
        upperBottom == upperPiece.y
    IN  IF Abs(lowerTop - upperBottom) > Inch(1) THEN FALSE
        ELSE /\ OverlapX(lowerPiece, upperPiece) >= 2 * Inch(2)
             /\ OverlapZ(lowerPiece, upperPiece) >= 2 * Inch(2)

\* strength in pounds and cost in dollars of each kind of connection
connectionTypes ==
    [none            |-> [strength |-> 0,   cost |-> 0],
     screws          |-> [strength |-> 50,  cost |-> 2],
     brackets_light  |-> [strength |-> 75,  cost |-> 5],
     brackets_heavy  |-> [strength |-> 150, cost |-> 12],
     bolts           |-> [strength |-> 200, cost |-> 8],
     glue_and_screws |-> [strength |-> 100, cost |-> 6],
     metal_plate     |-> [strength |-> 250, cost |-> 20]]

\* the tiers with the area bounds taken inclusively
suggestConnectionInclusiveTiers(overlapArea, upperPiece) ==
    LET weight == calculatePieceWeight(upperPiece)
    IN  IF overlapArea <= 4 * 64
        THEN (IF weight > 200 THEN "metal_plate" ELSE "brackets_heavy")
        ELSE IF overlapArea <= 16 * 64
        THEN (IF weight > 150 THEN "brackets_heavy" ELSE "brackets_light")
        ELSE (IF weight > 100 THEN "glue_and_screws" ELSE "screws")

\* overlapArea is in square eighth-inches: 64 to the square inch
suggestConnection(overlapArea, upperPiece) ==
    LET weight == calculatePieceWeight(upperPiece)
    IN  IF overlapArea < 4 * 64
        THEN (IF weight > 200 THEN "metal_plate" ELSE "brackets_heavy")
        ELSE IF overlapArea < 16 * 64
        THEN (IF weight > 150 THEN "brackets_heavy" ELSE "brackets_light")
        ELSE (IF weight > 100 THEN "glue_and_screws" ELSE "screws")

\* x and z are the overlap centre in sixteenths of an inch (the sum of the two
\* doubled bounds, before the source halves it); y in quarter inches
calculateConnectionPoint(lowerPiece, upperPiece) ==
    LET overlapArea == OverlapX(lowerPiece, upperPiece)
                       * OverlapZ(lowerPiece, upperPiece)
    IN  [x |-> Max(2 * lowerPiece.x - lowerPiece.width,
                   2 * upperPiece.x - upperPiece.width)
               + Min(2 * lowerPiece.x + lowerPiece.width,
                     2 * upperPiece.x + upperPiece.width),
         y |-> lowerPiece.y + lowerPiece.height,
         z |-> Max(2 * lowerPiece.z - lowerPiece.depth,
                   2 * upperPiece.z - upperPiece.depth)
               + Min(2 * lowerPiece.z + lowerPiece.depth,
                     2 * upperPiece.z + upperPiece.depth),
         area |-> overlapArea,
         upperPieceId |-> upperPiece.id,
         lowerPieceId |-> lowerPiece.id,
         suggestedConnection |-> suggestConnection(overlapArea, upperPiece)]

\* the guard without the skip of the self pair
SupportsPairNoSelfSkip(lowerPiece, upperPiece) ==
    isSupporting(lowerPiece, upperPiece)

\* the guard of the inner forEach body: skip the self pair, then test support
SupportsPair(lowerPiece, upperPiece) ==
    /\ upperPiece.id # lowerPiece.id
    /\ isSupporting(lowerPiece, upperPiece)

\* 1..Len(ps) as a list: the order in which forEach visits the pieces
Indices(ps) == [i \in 1..Len(ps) |-> i]

RECURSIVE IdsAt(_, _)
\* the ids of the pieces at the listed positions, in that order
IdsAt(ps, idx) ==
    IF idx = <<>> THEN <<>> ELSE <<ps[Head(idx)].id>> \o IdsAt(ps, Tail(idx))

RECURSIVE ConnectionsAt(_, _, _)
\* the contact records of lowerPiece with the pieces at the listed positions
ConnectionsAt(ps, lowerPiece, idx) ==
    IF idx = <<>> THEN <<>>
    ELSE <<calculateConnectionPoint(lowerPiece, ps[Head(idx)])>>
         \o ConnectionsAt(ps, lowerPiece, Tail(idx))

\* positions of the pieces lowerPiece supports, in the order of the outer loop
UppersOf(ps, lowerPiece) ==
    LET Test(i) == SupportsPair(lowerPiece, ps[i])
    IN  SelectSeq(Indices(ps), Test)

\* LowersOf with the arguments of the support test exchanged
LowersOfSwapped(ps, upperPiece) ==
    LET Test(i) == SupportsPair(upperPiece, ps[i])
    IN  SelectSeq(Indices(ps), Test)

\* positions of the pieces that support upperPiece, in the order of the inner loop
LowersOf(ps, upperPiece) ==
    LET Test(i) == SupportsPair(ps[i], upperPiece)
    IN  SelectSeq(Indices(ps), Test)

\* supportMap[lower.id].supporting after the two nested forEach loops: one
\* push per supported piece
SupportingOf(ps, lowerPiece) == IdsAt(ps, UppersOf(ps, lowerPiece))

\* supportMap[upper.id].supportedBy: one push per supporting piece
SupportedByOf(ps, upperPiece) == IdsAt(ps, LowersOf(ps, upperPiece))

\* supportMap[lower.id].connections: one record per push to supporting
ConnectionsOf(ps, lowerPiece) ==
    ConnectionsAt(ps, lowerPiece, UppersOf(ps, lowerPiece))

\* the node analyzeSupportStructure leaves for a piece before the load pass
InitialNode(ps, piece) ==
    [piece       |-> piece,
     supporting  |-> SupportingOf(ps, piece),
     supportedBy |-> SupportedByOf(ps, piece),
     connections |-> ConnectionsOf(ps, piece),
     totalLoad   |-> 0,
     stressLevel |-> [num |-> 0, den |-> 1]]

\* the piece of ps with the given id (ids are unique)
PieceById(ps, id) == ps[CHOOSE i \in 1..Len(ps) : ps[i].id = id]

\* Object.values(supportMap): the nodes' ids in insertion order, which is the
\* order of the piece list (ids are unique, non-numeric strings in the source)
NodeOrder(ps) == IdsAt(ps, Indices(ps))

\* supportMap as analyzeSupportStructure has it when it calls
\* calculateLoadDistribution
BuildSupportMap(ps) ==
    [id \in SeqToSet(NodeOrder(ps)) |-> InitialNode(ps, PieceById(ps, id))]

----------------------------------------------------------------------------
(* Load propagation *)

\* the ids pushed by the seeding forEach: nodes with supporting.length === 0
SeedQueue(map, order) ==
    LET Test(id) == Len(map[id].supporting) = 0
    IN  SelectSeq(order, Test)

RECURSIVE SupportedWeight(_, _)
\* node.supporting.reduce((total, id) => total + (supportMap[id].totalLoad || 0), 0)
SupportedWeight(map, supporting) ==
    IF supporting = <<>> THEN 0
    ELSE map[Head(supporting)].totalLoad + SupportedWeight(map, Tail(supporting))

\* material.baseCapacity * width * depth, times 16 (square quarter-inches)
MaxCapacity(piece) == MaterialOf(piece).baseCapacity * piece.width * piece.depth

\* the stress ratio without the Math.min(1, ...) clamp
StressLevelUnclamped(totalLoad, maxCapacity) ==
    [num |-> 8 * totalLoad, den |-> 5 * maxCapacity]

\* Math.min(1, totalLoad / maxCapacity) as a fraction; totalLoad is in tenths
\* of a pound and maxCapacity in sixteenths, so the ratio is 16 load / 10 cap
StressLevel(totalLoad, maxCapacity) ==
    IF 8 * totalLoad >= 5 * maxCapacity
    THEN [num |-> 1, den |-> 1]
    ELSE [num |-> 8 * totalLoad, den |-> 5 * maxCapacity]

\* the node after the body of the while loop has finalized it
ProcessedNode(map, pieceId) ==
    LET node        == map[pieceId]
        pieceWeight == calculatePieceWeight(node.piece)
        totalLoad   == pieceWeight + SupportedWeight(map, node.supporting)
    IN  [node EXCEPT !.totalLoad = totalLoad,
                     !.stressLevel = StressLevel(totalLoad, MaxCapacity(node.piece))]

\* the supporters pushed after pieceId was finalized
PushSupporters(supportedBy, done) ==
    LET Test(id) == id \notin done
    IN  SelectSeq(supportedBy, Test)

----------------------------------------------------------------------------
(* Point-load tester *)

\* variantId?.includes(tag); a variantId is the list of its dash-separated
\* words, and a missing one is the empty list
Includes(variantId, tag) == \E i \in 1..Len(variantId) : variantId[i] = tag

IsRestingSpot(p) ==
    \/ Includes(p.variantId, "platform")
    \/ Includes(p.variantId, "perch")
    \/ Includes(p.variantId, "house")

\* totalLoadWithCat < spotCapacity / safetyFactor  (safetyFactor = 2.0), for
\* a point load of num / den pounds
CanHoldLoad(node, spot, num, den) ==
    16 * (node.totalLoad * den + 10 * num) < 5 * MaxCapacity(spot) * den

\* the same for a point load of a whole number of pounds
CanHoldCat(node, spot, maxSingleCat) ==
    CanHoldLoad(node, spot, maxSingleCat, 1)

\* the condition under which a weak point is pushed and passed cleared
ExceedsCapacity(node, spot, maxSingleCat) ==
    16 * (node.totalLoad + 10 * maxSingleCat) > 5 * MaxCapacity(spot)

\* Math.round(spotCapacity / safetyFactor - node.totalLoad), in pounds
CurrentCapacity(node, spot) ==
    MathRound(5 * MaxCapacity(spot) - 16 * node.totalLoad, 160)

\* Math.max(0, spotCapacity / safetyFactor - node.totalLoad), in pounds
MaxCatWeight(node, spot) ==
    [num |-> Max(0, 5 * MaxCapacity(spot) - 16 * node.totalLoad), den |-> 160]

CatDistributionEntry(node, spot, maxSingleCat) ==
    [currentLoad |-> node.totalLoad,
     capacity    |-> MaxCapacity(spot),
     canHoldCat  |-> CanHoldCat(node, spot, maxSingleCat),
     maxCatWeight |-> MaxCatWeight(node, spot)]

RECURSIVE WeakPoints(_, _, _)
WeakPoints(spots, map, maxSingleCat) ==
    IF spots = <<>> THEN <<>>
    ELSE LET spot == Head(spots)
             node == map[spot.id]
         IN  (IF ExceedsCapacity(node, spot, maxSingleCat)
              THEN <<[pieceId |-> spot.id,
                      currentCapacity |-> CurrentCapacity(node, spot),
                      required |-> maxSingleCat]>>
              ELSE <<>>)
             \o WeakPoints(Tail(spots), map, maxSingleCat)

RECURSIVE TotalCapacity(_)
TotalCapacity(spots) ==
    IF spots = <<>> THEN 0
    ELSE MaxCapacity(Head(spots)) + TotalCapacity(Tail(spots))

\* the comparison taken against one half whatever the threshold
StressAboveHalf(node, tNum, tDen) ==
    node.stressLevel.num * 2 > node.stressLevel.den

\* node.stressLevel > t, for t = tNum / tDen
StressAbove(node, tNum, tDen) ==
    node.stressLevel.num * tDen > tNum * node.stressLevel.den

RECURSIVE StressRecommendations(_, _)
StressRecommendations(order, map) ==
    IF order = <<>> THEN <<>>
    ELSE LET node == map[Head(order)]
         IN  (IF StressAbove(node, 1, 2)
              THEN <<[pieceId |-> node.piece.id,
                      stress |-> MathRound(100 * node.stressLevel.num,
                                           node.stressLevel.den),
                      suggestion |-> IF StressAbove(node, 3, 4)
                                     THEN "Critical" ELSE "Warning"]>>
              ELSE <<>>)
             \o StressRecommendations(Tail(order), map)

\* results.passed as initialised to false
InitialPassedFalse == FALSE

\* results.passed as initialised, before any resting spot is looked at
InitialPassed == TRUE

\* the record testCatWeights returns (names and message texts left out; the
\* 'Overall Design' entry has pieceId null, written 0)
testCatWeights(ps, weights, map) ==
    LET totalCatWeight == SumSeq(weights)
        maxSingleCat   == MaxSeq(weights)
        restingSpots   == SelectSeq(ps, IsRestingSpot)
        weakPoints     == WeakPoints(restingSpots, map, maxSingleCat)
        passed         == IF weakPoints # <<>> THEN FALSE ELSE InitialPassed
        stressRecs     == StressRecommendations(NodeOrder(ps), map)
    IN  [passed          |-> passed,
         totalCapacity   |-> TotalCapacity(restingSpots),
         weakPoints      |-> weakPoints,
         recommendations |->
             IF ~passed
             THEN <<[pieceId |-> 0, stress |-> 100, suggestion |-> "Overall"]>>
                  \o stressRecs
             ELSE stressRecs,
         catDistribution |->
             [id \in {restingSpots[i].id : i \in 1..Len(restingSpots)} |->
                 CatDistributionEntry(map[id], PieceById(ps, id), maxSingleCat)]]

----------------------------------------------------------------------------
(* Hardware recommender and report *)

RECURSIVE ConnectionsOfNodes(_, _)
\* the connections of the nodes, node by node in the order of Object.values
ConnectionsOfNodes(map, order) ==
    IF order = <<>> THEN <<>>
    ELSE map[Head(order)].connections \o ConnectionsOfNodes(map, Tail(order))

\* the entry with the two ids of `between` exchanged
RecommendationSwapped(conn) ==
    [between  |-> <<conn.upperPieceId, conn.lowerPieceId>>,
     type     |-> conn.suggestedConnection,
     cost     |-> connectionTypes[conn.suggestedConnection].cost,
     strength |-> connectionTypes[conn.suggestedConnection].strength,
     location |-> [x |-> conn.x, y |-> conn.y, z |-> conn.z]]

\* the entry recommendConnections pushes for one connection (description left
\* out)
Recommendation(conn) ==
    [between  |-> <<conn.lowerPieceId, conn.upperPieceId>>,
     type     |-> conn.suggestedConnection,
     cost     |-> connectionTypes[conn.suggestedConnection].cost,
     strength |-> connectionTypes[conn.suggestedConnection].strength,
     location |-> [x |-> conn.x, y |-> conn.y, z |-> conn.z]]

RECURSIVE HardwareCost(_)
\* totalCost.hardware after the entries have been pushed
HardwareCost(recs) ==
    IF recs = <<>> THEN 0 ELSE Head(recs).cost + HardwareCost(Tail(recs))

recommendConnections(map, order) ==
    LET conns == ConnectionsOfNodes(map, order)
        recommendations == [i \in 1..Len(conns) |-> Recommendation(conns[i])]
    IN  [connections       |-> recommendations,
         totalHardwareCost |-> HardwareCost(recommendations),
         count             |-> Len(recommendations)]

\* the report generateStressReport returns, from the graph and the results its
\* first two calls produced; totalStructureWeight in tenths of a pound
\* (safetyFactor, the constant 2.0 of the results, left out)
generateStressReport(ps, weights, map, testResults) ==
    LET connections == recommendConnections(map, NodeOrder(ps))
        totalWeight == calculateTotalWeight(ps)
    IN  [summary |-> [passed               |-> testResults.passed,
                      totalStructureWeight |-> totalWeight,
                      maxCatWeight         |-> MaxSeq(weights),
                      totalCatWeight       |-> SumSeq(weights),
                      numberOfCats         |-> Len(weights)],
         supportStructure |-> map,
         testResults      |-> testResults,
         connections      |-> connections,
         criticalPoints   |-> testResults.weakPoints,
         recommendations  |-> testResults.recommendations]

----------------------------------------------------------------------------
(* Inputs.  The engine is called with whatever piece list the designer holds: *)
(* catalog pieces, resized (updatePieceDimensions clamps to 1..48 / 1..72 in) *)
(* and moved freely.  The piece lists are drawn from these families:          *)
(*   geometry: 4in x 4in wooden platforms, thin (0.5in) or thick (2.75in),    *)
(*             at elevations and offsets on both sides of the 1in and 2in     *)
(*             thresholds of isSupporting;                                    *)
(*   stack:    the catalog's platform-base (24in x 16in) and post-square      *)
(*             (4 x 24 x 4) placed as a base, two posts, an upper deck and a  *)
(*             second-tier post; the platforms either at the catalog's        *)
(*             thickness of 0.75in or resized to 2in;                         *)
(*   heavy:    a 2 x 1.25 x 2 cushion perch under solid wooden blocks, and    *)
(*             the catalog's bedding-cushion in fabric resized to 1 x 1.25 x  *)
(*             1, whose capacity/2 of 15 lb is a third of a 45 lb load.       *)
(* Ids are the positions in the list.                                         *)

MaxGeoPieces == 2

MaxStackPieces == 4

MaxHeavyPieces == 2

Piece(variantId, material, shape, hollow, width, height, depth, x, y, z) ==
    [id |-> 0, variantId |-> variantId, material |-> material, shape |-> shape,
     hollow |-> hollow, width |-> width, height |-> height, depth |-> depth,
     x |-> x, y |-> y, z |-> z]

GeoPieces ==
    {Piece(<<"platform", "square">>, "wood", "box", FALSE,
           Inch(4), h, Inch(4), xz[1], y, xz[2]) :
        h \in {2, 11}, y \in {0, 6, 7},
        xz \in {<<0, 0>>, <<8, 0>>, <<9, 0>>, <<0, 8>>, <<0, 9>>, <<8, 8>>}}

\* thickness is the height of the platforms
StackPieces(thickness) ==
    {Piece(<<"platform", "base">>, "wood", "box", FALSE,
           Inch(24), thickness, Inch(16), 0, y, 0) :
        y \in {0, thickness + Inch(24)}}
    \cup
    {Piece(<<"post", "square">>, "wood", "box", FALSE,
           Inch(4), Inch(24), Inch(4), xy[1], xy[2], 0) :
        xy \in {<<-Inch(8), thickness>>, <<Inch(8), thickness>>,
                <<-Inch(8), thickness + Inch(24)>>}}

ThinStackPieces == StackPieces(3)

ThickStackPieces == StackPieces(Inch(2))

HeavyPieces ==
    {Piece(<<"perch", "rectangle">>, "cushion", "box", FALSE,
           Inch(2), 5, Inch(2), 0, 0, 0)}
    \cup
    {Piece(<<"bedding", "cushion">>, "fabric", "cushion", FALSE,
           Inch(1), 5, Inch(1), 0, 0, 0)}
    \cup
    {Piece(<<"post", "square">>, "wood", "box", FALSE,
           whd[1], whd[2], whd[3], 0, 5, 0) :
        whd \in {<<Inch(10), Inch(10), Inch(10)>>,
                 <<Inch(12), Inch(12), Inch(12)>>,
                 <<Inch(12), Inch(24), Inch(12)>>}}

RECURSIVE ColumnFrom(_, _)
\* solid wood 12in x 12in platforms of the given heights, each resting with its
\* y exactly on the top of the one before, the first at elevation y
ColumnFrom(heights, y) ==
    IF heights = <<>> THEN <<>>
    ELSE <<Piece(<<"platform", "square">>, "wood", "box", FALSE,
                 Inch(12), Head(heights), Inch(12), 0, y, 0)>>
         \o ColumnFrom(Tail(heights), y + Head(heights))

\* the list in the opposite order
Reverse(l) == [i \in 1..Len(l) |-> l[Len(l) + 1 - i]]

\* list l with each piece given its id
WithIds(l) == [i \in 1..Len(l) |-> [l[i] EXCEPT !.id = i]]

\* ps is a list of at most n pieces of the family, with ids
IsListOf(ps, family, n) ==
    \E m \in 0..n : \E l \in [1..m -> family] : ps = WithIds(l)

\* point-load lists: the default [15], and lists with other maxima
CatWeightLists == {<<15>>, <<40>>, <<15, 45>>, <<45, 15>>}

\* testCatWeights has not run
NoResults ==
    [passed |-> TRUE, totalCapacity |-> 0, weakPoints |-> <<>>,
     recommendations |-> <<>>, catDistribution |-> <<>>]

\* generateStressReport has not returned
NoReport ==
    [summary |-> [passed |-> TRUE, totalStructureWeight |-> 0,
                  maxCatWeight |-> 0, totalCatWeight |-> 0, numberOfCats |-> 0],
     supportStructure |-> <<>>,
     testResults |-> NoResults,
     connections |-> [connections |-> <<>>, totalHardwareCost |-> 0,
                      count |-> 0],
     criticalPoints |-> <<>>,
     recommendations |-> <<>>]

\* no engine function is called directly
NoCall == [fn |-> "none"]

----------------------------------------------------------------------------
(* The state machine: one generateStressReport call on a piece list *)

\* the designer is not operated: no group, no operation
NoDesign ==
    /\ groups = <<>>
    /\ nextId = 1
    /\ opCount = 0
    /\ lastOp = [name |-> "none", before |-> <<>>]

\* the state before generateStressReport runs
Fresh ==
    /\ pc = "start"
    /\ supportMap = <<>>
    /\ processingQueue = <<>>
    /\ processed = {}
    /\ catWeights = <<15>>
    /\ results = NoResults
    /\ report = NoReport
    /\ lastReport = NoReport
    /\ calls = 0
    /\ fnCall = NoCall
    /\ fnRet = NoCall
    /\ NoDesign

Init ==
    /\ \/ IsListOf(pieces, GeoPieces, MaxGeoPieces)
       \/ IsListOf(pieces, ThinStackPieces, MaxStackPieces)
       \/ IsListOf(pieces, ThickStackPieces, MaxStackPieces)
       \/ IsListOf(pieces, HeavyPieces, MaxHeavyPieces)
    /\ Fresh

\* piece lists in which every piece is thicker than the 1 inch tolerance of
\* isSupporting
InitThick ==
    /\ \/ IsListOf(pieces, ThickStackPieces, MaxStackPieces)
       \/ IsListOf(pieces, HeavyPieces, MaxHeavyPieces)
    /\ Fresh

\* the processed set as an earlier call left it
SeedProcessedKept(previous) == previous

\* `new Set()`: the processed set starts empty whatever an earlier call did
SeedProcessed(previous) == {}

\* analyzeSupportStructure up to its call of calculateLoadDistribution
AnalyzeSupportStructure ==
    /\ pc = "start"
    /\ supportMap' = BuildSupportMap(pieces)
    /\ pc' = "distribute"
    /\ UNCHANGED <<pieces, processingQueue, processed, catWeights, results,
                   reportVars, fnVars, designVars>>

\* calculateLoadDistribution: the seeding of the queue; with nothing seeded the
\* while loop is skipped and analyzeSupportStructure returns
SeedProcessingQueue ==
    /\ pc = "distribute"
    /\ processingQueue' = SeedQueue(supportMap, NodeOrder(pieces))
    /\ processed' = SeedProcessed(processed)
    /\ pc' = IF processingQueue' = <<>> THEN "analyzed" ELSE "loop"
    /\ UNCHANGED <<pieces, supportMap, catWeights, results,
                   reportVars, fnVars, designVars>>

\* the test taken as never met
NeverProcessed(pieceId, done) == FALSE

\* processed.has(pieceId)
AlreadyProcessed(pieceId, done) == pieceId \in done

\* one iteration of the while loop that hits `continue`
SkipProcessed ==
    /\ pc = "loop"
    /\ processingQueue # <<>>
    /\ AlreadyProcessed(Head(processingQueue), processed)
    /\ processingQueue' = Tail(processingQueue)
    /\ pc' = IF processingQueue' = <<>> THEN "analyzed" ELSE "loop"
    /\ UNCHANGED <<pieces, supportMap, processed, catWeights, results,
                   reportVars, fnVars, designVars>>

\* one iteration of the while loop that finalizes a node
ProcessNode ==
    /\ pc = "loop"
    /\ processingQueue # <<>>
    /\ LET pieceId == Head(processingQueue)
       IN  /\ ~AlreadyProcessed(pieceId, processed)
           /\ supportMap' = [supportMap EXCEPT
                                ![pieceId] = ProcessedNode(supportMap, pieceId)]
           /\ processed' = processed \cup {pieceId}
           /\ processingQueue' =
                  Tail(processingQueue)
                  \o PushSupporters(supportMap[pieceId].supportedBy, processed')
    /\ pc' = IF processingQueue' = <<>> THEN "analyzed" ELSE "loop"
    /\ UNCHANGED <<pieces, catWeights, results,
                   reportVars, fnVars, designVars>>

\* generateStressReport's call of testCatWeights on the analyzed graph
TestCatWeights ==
    /\ pc = "analyzed"
    /\ \E weights \in CatWeightLists :
           /\ catWeights' = weights
           /\ results' = testCatWeights(pieces, weights, supportMap)
    /\ pc' = "tested"
    /\ UNCHANGED <<pieces, supportMap, processingQueue, processed,
                   reportVars, fnVars, designVars>>

Next ==
    \/ AnalyzeSupportStructure
    \/ SeedProcessingQueue
    \/ SkipProcessed
    \/ ProcessNode
    \/ TestCatWeights

Spec == Init /\ [][Next]_vars

SpecThick == InitThick /\ [][Next]_vars

----------------------------------------------------------------------------
(* The call run to its end on the catalog-thickness base and the three      *)
(* posts, which give uneven trees, nodes enqueued twice and mutually        *)
(* supporting bases.  The code is one sequential call, so a step that can   *)
(* be taken is taken.                                                       *)

\* the stack family without the upper deck
TreePieces ==
    {p \in ThinStackPieces : Includes(p.variantId, "post") \/ p.y = 0}

InitThin ==
    /\ IsListOf(pieces, TreePieces, MaxStackPieces)
    /\ Fresh

SpecFair == InitThin /\ [][Next]_vars /\ WF_vars(Next)

----------------------------------------------------------------------------
(* Vertical stacks: platforms 1in or 2in high, listed bottom-up or top-down *)

MaxColumnPieces == 4

InitColumn ==
    /\ \E m \in 0..MaxColumnPieces :
       \E heights \in [1..m -> {Inch(1), Inch(2)}] :
           \/ pieces = WithIds(ColumnFrom(heights, 0))
           \/ pieces = WithIds(Reverse(ColumnFrom(heights, 0)))
    /\ Fresh

SpecColumn == InitColumn /\ [][Next]_vars

----------------------------------------------------------------------------
(* generateStressReport called with a point-load argument, and called again *)
(* by the panel's Recalculate with the same piece list and point loads       *)

MaxReportPieces == 3

MaxCalls == 2

\* the default parameter `catWeights = [15]`: it stands in for an argument
\* that is left out, not for one that is given
DefaultCatWeights(given, list) == IF given THEN list ELSE <<15>>

\* the list has lost its first entry
WeightsAfterShift(weights) == IF weights = <<>> THEN weights ELSE Tail(weights)

\* the point-load list after testCatWeights: reduce and the spread into
\* Math.max read the list without writing it
WeightsAfterTest(weights) == weights

InitReport ==
    /\ \/ IsListOf(pieces, ThickStackPieces, MaxReportPieces)
       \/ IsListOf(pieces, HeavyPieces, MaxHeavyPieces)
    /\ pc = "start"
    /\ supportMap = <<>>
    /\ processingQueue = <<>>
    /\ processed = {}
    /\ \E given \in BOOLEAN :
       \E list \in (IF given THEN CatWeightLists \cup {<<>>} ELSE {<<>>}) :
           catWeights = DefaultCatWeights(given, list)
    /\ results = NoResults
    /\ report = NoReport
    /\ lastReport = NoReport
    /\ calls = 0
    /\ fnCall = NoCall
    /\ fnRet = NoCall
    /\ NoDesign

\* generateStressReport's call of testCatWeights with its catWeights argument
CallTestCatWeights ==
    /\ pc = "analyzed"
    /\ results' = testCatWeights(pieces, catWeights, supportMap)
    /\ catWeights' = WeightsAfterTest(catWeights)
    /\ pc' = "tested"
    /\ UNCHANGED <<pieces, supportMap, processingQueue, processed,
                   reportVars, fnVars, designVars>>

\* recommendConnections, calculateTotalWeight and the return of the report;
\* the caller keeps the report it held before
ReturnReport ==
    /\ pc = "tested"
    /\ report' = generateStressReport(pieces, catWeights, supportMap, results)
    /\ lastReport' = report
    /\ calls' = calls + 1
    /\ pc' = "returned"
    /\ UNCHANGED <<pieces, supportMap, processingQueue, processed, catWeights,
                   results, fnVars, designVars>>

\* handleRecalculate: generateStressReport is entered again with the same
\* piece list and point-load list
Recalculate ==
    /\ pc = "returned"
    /\ calls < MaxCalls
    /\ pc' = "start"
    /\ UNCHANGED <<pieces, supportMap, processingQueue, processed, catWeights,
                   results, reportVars, fnVars, designVars>>

NextReport ==
    \/ AnalyzeSupportStructure
    \/ SeedProcessingQueue
    \/ SkipProcessed
    \/ ProcessNode
    \/ CallTestCatWeights
    \/ ReturnReport
    \/ Recalculate

SpecReport == InitReport /\ [][NextReport]_vars

----------------------------------------------------------------------------
(* Direct calls of the pure engine functions *)

\* overlap areas on both sides of the 4 and 16 square inch tiers
AreaInputs == {3 * 64, 4 * 64 - 1, 4 * 64, 10 * 64, 16 * 64 - 1, 16 * 64, 20 * 64}

\* solid wood 4in x 4in boxes: one tenth of a pound to the quarter inch of
\* height, so the weights lie on both sides of 10, 15 and 20 pounds
UpperInputs ==
    { Piece(<<"post", "square">>, "wood", "box", FALSE,
            Inch(4), h, Inch(4), 0, 0, 0) :
        h \in {50, 100, 101, 150, 151, 200, 201, 250} }

SuggestInputs ==
    { [overlapArea |-> a, upperPiece |-> p] : a \in AreaInputs, p \in UpperInputs }

\* dimensions from a quarter inch to a foot, around the 1.5in of two walls
WeightDims == {1, 4, 6, 8, 48}

WeightInputs ==
    { Piece(<<"house", "basic">>, m, sh, FALSE, w, h, d, 0, 0, 0) :
        m \in {"wood", "fabric", "sisal", "carpet", "cushion", "metal"},
        sh \in {"box", "cylinder", "cushion"},
        w \in WeightDims, h \in WeightDims, d \in WeightDims }

\* the pieces that differ from p in one dimension only, which is larger
LargerInOneDimension(p) ==
    {[p EXCEPT !.width = w] : w \in {v \in WeightDims : v > p.width}}
    \cup {[p EXCEPT !.height = h] : h \in {v \in WeightDims : v > p.height}}
    \cup {[p EXCEPT !.depth = d] : d \in {v \in WeightDims : v > p.depth}}

\* no piece list is analyzed
NoAnalysis ==
    /\ pieces = <<>>
    /\ pc = "fn"
    /\ supportMap = <<>>
    /\ processingQueue = <<>>
    /\ processed = {}
    /\ catWeights = <<15>>
    /\ results = NoResults
    /\ report = NoReport
    /\ lastReport = NoReport
    /\ calls = 0
    /\ NoDesign

InitFn ==
    /\ NoAnalysis
    /\ \/ \E a \in SuggestInputs : \E b \in SuggestInputs :
              fnCall = [fn |-> "suggestConnection", first |-> a, second |-> b]
       \/ \E p \in WeightInputs : \E q \in LargerInOneDimension(p) \cup {p} :
              fnCall = [fn |-> "calculatePieceWeight", piece |-> p, larger |-> q]
    /\ fnRet = NoCall

\* suggestConnection on two argument pairs, one call after the other
CallSuggestConnection ==
    /\ fnCall.fn = "suggestConnection"
    /\ fnRet = NoCall
    /\ fnRet' = [fn |-> "suggestConnection",
                 first  |-> suggestConnection(fnCall.first.overlapArea,
                                              fnCall.first.upperPiece),
                 second |-> suggestConnection(fnCall.second.overlapArea,
                                              fnCall.second.upperPiece)]
    /\ UNCHANGED <<pieces, pc, supportMap, processingQueue, processed,
                   catWeights, results, reportVars, fnCall, designVars>>

\* calculatePieceWeight on a piece and on a larger one, each taken as hollow
\* and taken as solid
CallCalculatePieceWeight ==
    /\ fnCall.fn = "calculatePieceWeight"
    /\ fnRet = NoCall
    /\ fnRet' = [fn |-> "calculatePieceWeight",
                 hollow |-> calculatePieceWeight(
                                [fnCall.piece EXCEPT !.hollow = TRUE]),
                 solid  |-> calculatePieceWeight(
                                [fnCall.piece EXCEPT !.hollow = FALSE]),
                 hollowLarger |-> calculatePieceWeight(
                                      [fnCall.larger EXCEPT !.hollow = TRUE]),
                 solidLarger  |-> calculatePieceWeight(
                                      [fnCall.larger EXCEPT !.hollow = FALSE])]
    /\ UNCHANGED <<pieces, pc, supportMap, processingQueue, processed,
                   catWeights, results, reportVars, fnCall, designVars>>

NextFn ==
    \/ CallSuggestConnection
    \/ CallCalculatePieceWeight

SpecFn == InitFn /\ [][NextFn]_vars

-----------------------------------------------------------------------------
(* The designer's piece management (usePieceManagement): the operations that
   edit the piece list handed to the analysis engine.  Lengths are quarter
   inches, rotationY is in degrees, ids are numbers drawn from nextId, the
   null groupId is 0. *)

MaxDesignPieces == 2
MaxOps == 4

movementIncrement == Inch(2)

clamp(value, min, max) == Max(min, Min(max, value))

normalizeRotation(rotation) == ((rotation % 360) + 360) % 360

\* 'platform-...' variant ids start with the word platform
canFlipPiece(piece) == Len(piece.variantId) > 0 /\ piece.variantId[1] = "platform"

\* the variants of the library the designer adds here
DesignVariants ==
    { [id |-> <<"platform", "base">>, baseWidth |-> Inch(24), baseHeight |-> 3,
       baseDepth |-> Inch(16), hollow |-> FALSE, shape |-> "box"],
      [id |-> <<"post", "square">>, baseWidth |-> Inch(4), baseHeight |-> Inch(24),
       baseDepth |-> Inch(4), hollow |-> FALSE, shape |-> "box"] }

createPieceFromVariant(variant, id) ==
    [id |-> id, variantId |-> variant.id, material |-> "wood",
     shape |-> variant.shape, hollow |-> variant.hollow,
     width |-> variant.baseWidth, height |-> variant.baseHeight,
     depth |-> variant.baseDepth,
     x |-> -Inch(30), y |-> 0, z |-> -Inch(30), rotationY |-> 0,
     flipped |-> FALSE, locked |-> FALSE, groupId |-> 0]

\* prev.map(f) of the setPieces updaters
MapPieces(prev, f(_)) == [i \in 1..Len(prev) |-> f(prev[i])]

\* an optional field of an argument object is given
Has(object, field) == field \in DOMAIN object

\* { ...piece, ...updates }
Spread(piece, updates) ==
    [f \in DOMAIN piece \cup DOMAIN updates |->
        IF f \in DOMAIN updates THEN updates[f] ELSE piece[f]]

validatedUpdates(updates) ==
    [f \in DOMAIN updates |->
        CASE f = "width" -> clamp(updates[f], Inch(1), Inch(48))
          [] f = "height" -> clamp(updates[f], Inch(1), Inch(72))
          [] f = "depth" -> clamp(updates[f], Inch(1), Inch(48))
          [] f = "rotationY" -> normalizeRotation(updates[f])
          [] OTHER -> updates[f]]

updatePieceCustomization(prev, pieceId, updates) ==
    LET f(piece) == IF piece.id = pieceId
                    THEN Spread(piece, validatedUpdates(updates))
                    ELSE piece
    IN  MapPieces(prev, f)

flipPiece(prev, pieceId) ==
    LET f(piece) == IF piece.id = pieceId /\ canFlipPiece(piece) /\ ~piece.locked
                    THEN [piece EXCEPT !.width = piece.height,
                                       !.height = piece.width,
                                       !.flipped = ~piece.flipped]
                    ELSE piece
    IN  MapPieces(prev, f)

togglePieceLock(prev, pieceId) ==
    LET f(piece) == IF piece.id = pieceId
                    THEN [piece EXCEPT !.locked = ~piece.locked]
                    ELSE piece
    IN  MapPieces(prev, f)

deletePiece(prev, pieceId) ==
    LET keep(piece) == piece.id # pieceId
    IN  IF \E i \in 1..Len(prev) : prev[i].id = pieceId /\ prev[i].locked
        THEN prev
        ELSE SelectSeq(prev, keep)

duplicatePiece(prev, pieceId, id) ==
    IF ~\E i \in 1..Len(prev) : prev[i].id = pieceId THEN prev
    ELSE LET originalPiece ==
                 prev[CHOOSE i \in 1..Len(prev) :
                          /\ prev[i].id = pieceId
                          /\ \A j \in 1..(i - 1) : prev[j].id # pieceId]
         IN  Append(prev,
                 [originalPiece EXCEPT
                     !.id = id,
                     !.x = clamp(originalPiece.x + movementIncrement * 2,
                                 -Inch(60), Inch(60)),
                     !.z = clamp(originalPiece.z + movementIncrement * 2,
                                 -Inch(60), Inch(60)),
                     !.locked = FALSE,
                     !.groupId = 0])

\* customPos is {} for null and {position} for a given position
movePiece(prev, pieceId, direction, customPos) ==
    LET f(piece) ==
            IF piece.id # pieceId \/ piece.locked \/ piece.groupId # 0 THEN piece
            ELSE LET pos == CHOOSE c \in customPos : TRUE
                     newX == IF customPos # {}
                             THEN (IF Has(pos, "x") THEN pos.x ELSE piece.x)
                             ELSE CASE direction = "left" -> piece.x - movementIncrement
                                    [] direction = "right" -> piece.x + movementIncrement
                                    [] direction = "center" -> 0
                                    [] OTHER -> piece.x
                     newY == IF customPos # {}
                             THEN (IF Has(pos, "y") THEN pos.y ELSE piece.y)
                             ELSE CASE direction = "up" -> piece.y + movementIncrement
                                    [] direction = "down" ->
                                           Max(0, piece.y - movementIncrement)
                                    [] direction = "ground" -> 0
                                    [] OTHER -> piece.y
                     newZ == IF customPos # {}
                             THEN (IF Has(pos, "z") THEN pos.z ELSE piece.z)
                             ELSE CASE direction = "forward" -> piece.z - movementIncrement
                                    [] direction = "back" -> piece.z + movementIncrement
                                    [] direction = "center" -> 0
                                    [] OTHER -> piece.z
                 IN  [piece EXCEPT !.x = clamp(newX, -Inch(60), Inch(60)),
                                   !.y = Max(0, newY),
                                   !.z = clamp(newZ, -Inch(60), Inch(60))]
    IN  MapPieces(prev, f)

dragPiece(prev, pieceId, x, y, z) ==
    LET f(piece) ==
            IF piece.id = pieceId /\ ~piece.locked /\ piece.groupId = 0
            THEN [piece EXCEPT !.x = clamp(x, -Inch(60), Inch(60)),
                               !.y = Max(0, y),
                               !.z = clamp(z, -Inch(60), Inch(60))]
            ELSE piece
    IN  MapPieces(prev, f)

rotatePiece(prev, pieceId, degrees) ==
    LET f(piece) ==
            IF piece.id = pieceId /\ ~piece.locked
            THEN [piece EXCEPT !.rotationY = normalizeRotation(piece.rotationY + degrees)]
            ELSE piece
    IN  MapPieces(prev, f)

updatePieceDimensions(prev, pieceId, newDimensions) ==
    LET f(piece) ==
            IF piece.id = pieceId /\ ~piece.locked
            THEN [piece EXCEPT
                     !.width = clamp(IF Has(newDimensions, "width")
                                     THEN newDimensions.width ELSE piece.width,
                                     Inch(1), Inch(48)),
                     !.height = clamp(IF Has(newDimensions, "height")
                                      THEN newDimensions.height ELSE piece.height,
                                      Inch(1), Inch(72)),
                     !.depth = clamp(IF Has(newDimensions, "depth")
                                     THEN newDimensions.depth ELSE piece.depth,
                                     Inch(1), Inch(48))]
            ELSE piece
    IN  MapPieces(prev, f)

\* createGroup's setPieces updater
createGroup(prev, pieceIds, groupId) ==
    LET f(piece) == IF piece.id \in pieceIds
                    THEN [piece EXCEPT !.groupId = groupId]
                    ELSE piece
    IN  MapPieces(prev, f)

toggleGroupLock(gs, groupId) ==
    [i \in 1..Len(gs) |->
        IF gs[i].id = groupId THEN [gs[i] EXCEPT !.locked = ~gs[i].locked]
        ELSE gs[i]]

\* groups.find(g => g.id === groupId) exists and is not locked
GroupUnlocked(gs, groupId) ==
    \E i \in 1..Len(gs) :
        /\ gs[i].id = groupId
        /\ \A j \in 1..(i - 1) : gs[j].id # groupId
        /\ ~gs[i].locked

GroupPieces(prev, groupId) == {i \in 1..Len(prev) : prev[i].groupId = groupId}

RECURSIVE SumOver(_, _, _)
SumOver(prev, is, field) ==
    IF is = {} THEN 0
    ELSE LET i == CHOOSE j \in is : TRUE
         IN  prev[i][field] + SumOver(prev, is \ {i}, field)

\* the group centre falls on the quarter-inch grid
CentreOnGrid(prev, groupId) ==
    LET members == GroupPieces(prev, groupId)
    IN  members # {} =>
            \A field \in {"x", "y", "z"} :
                SumOver(prev, members, field) % Cardinality(members) = 0

GroupCenter(prev, groupId) ==
    LET members == GroupPieces(prev, groupId)
    IN  [field \in {"x", "y", "z"} |->
            SumOver(prev, members, field) \div Cardinality(members)]

moveGroup(prev, gs, groupId, direction, customPos) ==
    IF ~GroupUnlocked(gs, groupId) \/ GroupPieces(prev, groupId) = {} THEN prev
    ELSE LET groupCenter == GroupCenter(prev, groupId)
             pos == CHOOSE c \in customPos : TRUE
             deltaX == IF customPos # {}
                       THEN (IF Has(pos, "x") THEN pos.x - groupCenter.x ELSE 0)
                       ELSE CASE direction = "left" -> -movementIncrement
                              [] direction = "right" -> movementIncrement
                              [] direction = "center" -> -groupCenter.x
                              [] OTHER -> 0
             deltaY == IF customPos # {}
                       THEN (IF Has(pos, "y") THEN pos.y - groupCenter.y ELSE 0)
                       ELSE CASE direction = "up" -> movementIncrement
                              [] direction = "down" -> -movementIncrement
                              [] direction = "ground" -> -groupCenter.y
                              [] OTHER -> 0
             deltaZ == IF customPos # {}
                       THEN (IF Has(pos, "z") THEN pos.z - groupCenter.z ELSE 0)
                       ELSE CASE direction = "forward" -> -movementIncrement
                              [] direction = "back" -> movementIncrement
                              [] direction = "center" -> -groupCenter.z
                              [] OTHER -> 0
             f(piece) ==
                 IF piece.groupId = groupId
                 THEN [piece EXCEPT !.x = clamp(piece.x + deltaX, -Inch(60), Inch(60)),
                                    !.y = Max(0, piece.y + deltaY),
                                    !.z = clamp(piece.z + deltaZ, -Inch(60), Inch(60))]
                 ELSE piece
         IN  MapPieces(prev, f)

\* Math.cos and Math.sin at the quarter turns
Cos(degrees) == CASE degrees % 360 = 0 -> 1 [] degrees % 360 = 180 -> -1 [] OTHER -> 0
Sin(degrees) == CASE degrees % 360 = 90 -> 1 [] degrees % 360 = 270 -> -1 [] OTHER -> 0

rotateGroup(prev, gs, groupId, degrees) ==
    IF ~GroupUnlocked(gs, groupId) \/ GroupPieces(prev, groupId) = {} THEN prev
    ELSE LET center == GroupCenter(prev, groupId)
             f(piece) ==
                 IF piece.groupId # groupId THEN piece
                 ELSE LET relX == piece.x - center.x
                          relZ == piece.z - center.z
                          newRelX == relX * Cos(degrees) + relZ * Sin(degrees)
                          newRelZ == -relX * Sin(degrees) + relZ * Cos(degrees)
                      IN  [piece EXCEPT
                              !.x = center.x + newRelX,
                              !.z = center.z + newRelZ,
                              !.rotationY = normalizeRotation(piece.rotationY + degrees)]
         IN  MapPieces(prev, f)

\* value || fallback on numbers
OrDefault(value, fallback) == IF value = 0 THEN fallback ELSE value

\* loadDesign's cleanPieces
cleanPieces(filePieces) ==
    LET f(piece) ==
            [piece EXCEPT
                !.x = clamp(OrDefault(piece.x, 0), -Inch(60), Inch(60)),
                !.y = Max(0, OrDefault(piece.y, 0)),
                !.z = clamp(OrDefault(piece.z, 0), -Inch(60), Inch(60)),
                !.width = clamp(OrDefault(piece.width, Inch(12)), Inch(1), Inch(48)),
                !.height = clamp(OrDefault(piece.height, Inch(12)), Inch(1), Inch(72)),
                !.depth = clamp(OrDefault(piece.depth, Inch(12)), Inch(1), Inch(48)),
                !.rotationY = normalizeRotation(OrDefault(piece.rotationY, 0))]
    IN  MapPieces(filePieces, f)

(* The arguments the operations are called with *)

PieceIds == {pieces[i].id : i \in 1..Len(pieces)}
GroupIds == {groups[i].id : i \in 1..Len(groups)}

MoveInputs ==
    { <<"up", {}>>, <<"down", {}>>,
      <<"custom", {[x |-> Inch(70), y |-> -Inch(5)]}>> }
GroupMoveInputs == { <<"down", {}>>, <<"ground", {}>> }
DragInputs == { <<-Inch(70), -Inch(5), 0>> }
DimensionInputs == { [width |-> 0, height |-> Inch(100)] }
CustomizationInputs ==
    { [width |-> 0, depth |-> Inch(100)], [y |-> -Inch(5)], [rotationY |-> 450] }
RotationInputs == {90}
GroupRotationInputs == {180}
\* a piece as a saved design file holds it
FilePiece(id, width, height, depth, x, y, z, rotationY, locked, groupId) ==
    [id |-> id, variantId |-> <<"platform", "base">>, material |-> "wood",
     shape |-> "box", hollow |-> FALSE,
     width |-> width, height |-> height, depth |-> depth,
     x |-> x, y |-> y, z |-> z, rotationY |-> rotationY,
     flipped |-> FALSE, locked |-> locked, groupId |-> groupId]

\* the design files loaded: one with out-of-range numbers, one with a group
\* of two pieces of which one is locked (ids of files are negative here)
DesignFiles ==
    { [pieces |-> << FilePiece(-1, -Inch(3), Inch(100), 0,
                               Inch(70), -Inch(5), 0, 450, TRUE, 0) >>,
       groups |-> <<>>],
      [pieces |-> << FilePiece(-1, Inch(24), 3, Inch(16),
                               -Inch(30), Inch(6), -Inch(30), 0, TRUE, -3),
                     FilePiece(-2, Inch(4), Inch(24), Inch(4),
                               -Inch(26), Inch(2), -Inch(26), 0, FALSE, -3) >>,
       groups |-> << [id |-> -3, pieceIds |-> {-1, -2}, locked |-> FALSE] >>] }

NoOp == [name |-> "none", before |-> <<>>]

\* the analysis engine is not running while the design is edited
EngineIdle ==
    /\ pc = "design"
    /\ supportMap = <<>>
    /\ processingQueue = <<>>
    /\ processed = {}
    /\ catWeights = <<>>
    /\ results = NoResults
    /\ report = NoReport
    /\ lastReport = NoReport
    /\ calls = 0
    /\ fnCall = NoCall
    /\ fnRet = NoCall

engineVars == <<pc, supportMap, processingQueue, processed, catWeights, results,
                reportVars, fnVars>>

\* an empty design
InitDesign ==
    /\ pieces = <<>>
    /\ groups = <<>>
    /\ nextId = 1
    /\ opCount = 0
    /\ lastOp = NoOp
    /\ EngineIdle

\* one more operation, remembered with the list it was applied to
Operation(name) ==
    /\ opCount < MaxOps
    /\ opCount' = opCount + 1
    /\ lastOp' = [name |-> name, before |-> pieces]
    /\ UNCHANGED engineVars

AddPieceFromVariant ==
    \E variant \in DesignVariants :
        /\ Len(pieces) < MaxDesignPieces
        /\ pieces' = Append(pieces, createPieceFromVariant(variant, nextId))
        /\ nextId' = nextId + 1
        /\ Operation("addPieceFromVariant")
        /\ UNCHANGED groups

UpdatePieceCustomization ==
    \E pieceId \in PieceIds, updates \in CustomizationInputs :
        /\ pieces' = updatePieceCustomization(pieces, pieceId, updates)
        /\ Operation("updatePieceCustomization")
        /\ UNCHANGED <<groups, nextId>>

FlipPiece ==
    \E pieceId \in PieceIds :
        /\ pieces' = flipPiece(pieces, pieceId)
        /\ Operation("flipPiece")
        /\ UNCHANGED <<groups, nextId>>

TogglePieceLock ==
    \E pieceId \in PieceIds :
        /\ pieces' = togglePieceLock(pieces, pieceId)
        /\ Operation("togglePieceLock")
        /\ UNCHANGED <<groups, nextId>>

DeletePiece ==
    \E pieceId \in PieceIds :
        /\ pieces' = deletePiece(pieces, pieceId)
        /\ Operation("deletePiece")
        /\ UNCHANGED <<groups, nextId>>

DuplicatePiece ==
    \E pieceId \in PieceIds :
        /\ Len(pieces) < MaxDesignPieces
        /\ pieces' = duplicatePiece(pieces, pieceId, nextId)
        /\ nextId' = nextId + 1
        /\ Operation("duplicatePiece")
        /\ UNCHANGED groups

MovePiece ==
    \E pieceId \in PieceIds, input \in MoveInputs :
        /\ pieces' = movePiece(pieces, pieceId, input[1], input[2])
        /\ Operation("movePiece")
        /\ UNCHANGED <<groups, nextId>>

DragPiece ==
    \E pieceId \in PieceIds, input \in DragInputs :
        /\ pieces' = dragPiece(pieces, pieceId, input[1], input[2], input[3])
        /\ Operation("dragPiece")
        /\ UNCHANGED <<groups, nextId>>

RotatePiece ==
    \E pieceId \in PieceIds, degrees \in RotationInputs :
        /\ pieces' = rotatePiece(pieces, pieceId, degrees)
        /\ Operation("rotatePiece")
        /\ UNCHANGED <<groups, nextId>>

UpdatePieceDimensions ==
    \E pieceId \in PieceIds, newDimensions \in DimensionInputs :
        /\ pieces' = updatePieceDimensions(pieces, pieceId, newDimensions)
        /\ Operation("updatePieceDimensions")
        /\ UNCHANGED <<groups, nextId>>

\* the selection grouped is every piece of the design
CreateGroup ==
    /\ Cardinality(PieceIds) >= 2
    /\ pieces' = createGroup(pieces, PieceIds, nextId)
    /\ groups' = Append(groups, [id |-> nextId, pieceIds |-> PieceIds, locked |-> FALSE])
    /\ nextId' = nextId + 1
    /\ Operation("createGroup")

ToggleGroupLock ==
    \E groupId \in GroupIds :
        /\ groups' = toggleGroupLock(groups, groupId)
        /\ Operation("toggleGroupLock")
        /\ UNCHANGED <<pieces, nextId>>

MoveGroup ==
    \E groupId \in GroupIds, input \in GroupMoveInputs :
        /\ CentreOnGrid(pieces, groupId)
        /\ pieces' = moveGroup(pieces, groups, groupId, input[1], input[2])
        /\ Operation("moveGroup")
        /\ UNCHANGED <<groups, nextId>>

RotateGroup ==
    \E groupId \in GroupIds, degrees \in GroupRotationInputs :
        /\ CentreOnGrid(pieces, groupId)
        /\ pieces' = rotateGroup(pieces, groups, groupId, degrees)
        /\ Operation("rotateGroup")
        /\ UNCHANGED <<groups, nextId>>

ClearAllPieces ==
    /\ pieces' = <<>>
    /\ groups' = <<>>
    /\ Operation("clearAllPieces")
    /\ UNCHANGED nextId

LoadDesign ==
    \E designData \in DesignFiles :
        /\ pieces' = cleanPieces(designData.pieces)
        /\ groups' = designData.groups
        /\ Operation("loadDesign")
        /\ UNCHANGED nextId

NextDesign ==
    \/ AddPieceFromVariant
    \/ UpdatePieceCustomization
    \/ FlipPiece
    \/ TogglePieceLock
    \/ DeletePiece
    \/ DuplicatePiece
    \/ MovePiece
    \/ DragPiece
    \/ RotatePiece
    \/ UpdatePieceDimensions
    \/ CreateGroup
    \/ ToggleGroupLock
    \/ MoveGroup
    \/ RotateGroup
    \/ ClearAllPieces
    \/ LoadDesign

SpecDesign == InitDesign /\ [][NextDesign]_vars

-----------------------------------------------------------------------------
(* StressTestPanel: the panel's own point-load list (localCatWeights, here
   catWeights), edited by its three handlers; after each edit the panel's
   effect calls generateStressReport with the piece list and that list.
   List positions are 1-based. *)

MaxPanelCats == 2
MaxPanelEvents == 3

Digits == <<"0", "1", "2", "3", "4", "5", "6", "7", "8", "9">>

IsDigit(char) == \E d \in 1..10 : Digits[d] = char

DigitValue(char) == (CHOOSE d \in 1..10 : Digits[d] = char) - 1

\* the value of the longest prefix of digits, and whether there is one
RECURSIVE ParseDigits(_, _, _)
ParseDigits(text, value, seen) ==
    IF text # <<>> /\ IsDigit(Head(text))
    THEN ParseDigits(Tail(text), 10 * value + DigitValue(Head(text)), TRUE)
    ELSE [nan |-> ~seen, value |-> value]

\* parseInt on the text of the input field (a sequence of characters)
parseInt(text) ==
    IF text # <<>> /\ Head(text) = "-"
    THEN LET r == ParseDigits(Tail(text), 0, FALSE)
         IN  [nan |-> r.nan, value |-> -r.value]
    ELSE IF text # <<>> /\ Head(text) = "+" THEN ParseDigits(Tail(text), 0, FALSE)
    ELSE ParseDigits(text, 0, FALSE)

\* parseInt(value) || 1: NaN and 0 are falsy
ParsedOrOne(text) ==
    LET r == parseInt(text) IN IF r.nan \/ r.value = 0 THEN 1 ELSE r.value

\* handleWeightChange without the floor of 1
handleWeightChangeNoFloor(weights, index, value) ==
    [weights EXCEPT ![index] = parseInt(value).value]

handleWeightChange(weights, index, value) ==
    [weights EXCEPT ![index] = Max(1, ParsedOrOne(value))]

handleAddCat(weights) == Append(weights, 15)

handleRemoveCat(weights, index) ==
    IF Len(weights) > 1
    THEN [i \in 1..(Len(weights) - 1) |-> IF i < index THEN weights[i] ELSE weights[i + 1]]
    ELSE weights

\* what the user types into a weight field
WeightTexts ==
    { <<>>, <<"0">>, <<"-", "5">>, <<"7">>, <<"1", "2", ".", "7">>, <<"a", "b">> }

\* the panel is opened on a design with pieces, with the list of app.js
InitPanel ==
    /\ IsListOf(pieces, ThickStackPieces, MaxReportPieces)
    /\ pieces # <<>>
    /\ pc = "start"
    /\ supportMap = <<>>
    /\ processingQueue = <<>>
    /\ processed = {}
    /\ catWeights = <<15>>
    /\ results = NoResults
    /\ report = NoReport
    /\ lastReport = NoReport
    /\ calls = 0
    /\ fnCall = NoCall
    /\ fnRet = NoCall
    /\ NoDesign

\* the handler has set the list: the effect enters generateStressReport
PanelEvent(newWeights) ==
    /\ pc = "returned"
    /\ calls < MaxPanelEvents
    /\ catWeights' = newWeights
    /\ pc' = "start"
    /\ UNCHANGED <<pieces, supportMap, processingQueue, processed, results,
                   reportVars, fnVars, designVars>>

HandleWeightChange ==
    \E index \in 1..Len(catWeights), value \in WeightTexts :
        PanelEvent(handleWeightChange(catWeights, index, value))

HandleAddCat ==
    /\ Len(catWeights) < MaxPanelCats
    /\ PanelEvent(handleAddCat(catWeights))

HandleRemoveCat ==
    \E index \in 1..Len(catWeights) :
        PanelEvent(handleRemoveCat(catWeights, index))

NextPanel ==
    \/ AnalyzeSupportStructure
    \/ SeedProcessingQueue
    \/ SkipProcessed
    \/ ProcessNode
    \/ CallTestCatWeights
    \/ ReturnReport
    \/ HandleWeightChange
    \/ HandleAddCat
    \/ HandleRemoveCat

SpecPanel == InitPanel /\ [][NextPanel]_vars

----------------------------------------------------------------------------
(* Vocabulary of the properties *)

\* the support graph exists (analyzeSupportStructure has built it)
GraphBuilt == pc # "start"

\* analyzeSupportStructure has returned
Analyzed == pc \in {"analyzed", "tested"}

\* testCatWeights has returned
Tested == pc = "tested"

NodeIds == DOMAIN supportMap

Weight(id) == calculatePieceWeight(supportMap[id].piece)

RECURSIVE UpwardClosure(_)
\* the least set of ids that contains S and is closed under `supporting`
UpwardClosure(S) ==
    LET T == S \cup UNION {SeqToSet(supportMap[i].supporting) : i \in S}
    IN  IF T = S THEN S ELSE UpwardClosure(T)

\* the ids reachable from id through one or more `supporting` edges
Above(id) == UpwardClosure(SeqToSet(supportMap[id].supporting))

RECURSIVE WeightOfSet(_)
WeightOfSet(S) ==
    IF S = {} THEN 0
    ELSE LET i == CHOOSE j \in S : TRUE
         IN  Weight(i) + WeightOfSet(S \ {i})

\* the resting spots testCatWeights examines
RestingSpotIds == {pieces[i].id : i \in {j \in 1..Len(pieces) : IsRestingSpot(pieces[j])}}

WeakPointIds == {results.weakPoints[i].pieceId : i \in 1..Len(results.weakPoints)}

----------------------------------------------------------------------------
(* Claims *)

\* C1: after analyzeSupportStructure, every node with a non-empty `supporting`
\* list has totalLoad = its own weight + the sum of the final totalLoad of the
\* nodes in `supporting`.
C1_LoadIsOwnPlusSupported ==
    Analyzed =>
        \A id \in NodeIds :
            supportMap[id].supporting # <<>> =>
                supportMap[id].totalLoad =
                    Weight(id)
                    + SumSeq([k \in 1..Len(supportMap[id].supporting) |->
                                 supportMap[supportMap[id].supporting[k]].totalLoad])

\* C2: after analyzeSupportStructure, each node's totalLoad is the weight of
\* its own piece plus the weight of every distinct piece reachable from it
\* through `supporting` edges, each counted once.
C2_LoadCountsEachPieceOnce ==
    Analyzed =>
        \A id \in NodeIds :
            supportMap[id].totalLoad = WeightOfSet(Above(id) \cup {id})

\* C3: the support graph has no cycle of `supporting` edges.
C3_NoSupportCycle ==
    GraphBuilt => \A id \in NodeIds : id \notin Above(id)

\* C4: after analyzeSupportStructure, every node with an empty `supportedBy`
\* list has totalLoad >= the weight of its own piece.
C4_BaseBearsOwnWeight ==
    Analyzed =>
        \A id \in NodeIds :
            supportMap[id].supportedBy = <<>> =>
                supportMap[id].totalLoad >= Weight(id)

\* C5: in the result of testCatWeights, passed is true exactly when every
\* resting spot has canHoldCat = true, and weakPoints has an entry for exactly
\* the resting spots whose canHoldCat is false.
C5_PassedIffAllCanHold ==
    Tested =>
        /\ results.passed <=>
               \A id \in RestingSpotIds : results.catDistribution[id].canHoldCat
        /\ WeakPointIds =
               {id \in RestingSpotIds : ~results.catDistribution[id].canHoldCat}

\* C6: every weak point recorded by testCatWeights has currentCapacity >= 0.
C6_WeakPointCapacityFloored ==
    Tested =>
        \A i \in 1..Len(results.weakPoints) :
            results.weakPoints[i].currentCapacity >= 0

\* C7: in every graph analyzeSupportStructure builds, B's id is in
\* A.supporting if and only if A's id is in B.supportedBy.
C7_SupportSymmetry ==
    GraphBuilt =>
        \A a \in NodeIds, b \in NodeIds :
            b \in SeqToSet(supportMap[a].supporting)
                <=> a \in SeqToSet(supportMap[b].supportedBy)

\* a graph in which a piece rests on two supporters and a supporter holds two
\* pieces
C7_Witness ==
    /\ Analyzed
    /\ \E b \in NodeIds : Len(supportMap[b].supportedBy) >= 2
    /\ \E a \in NodeIds : Len(supportMap[a].supporting) >= 2

\* C8: no node's `supporting` or `supportedBy` list contains the node's own
\* id, also for a piece whose own top lies within 1 inch of its own bottom.
C8_NoSelfSupport ==
    GraphBuilt =>
        \A id \in NodeIds :
            /\ id \notin SeqToSet(supportMap[id].supporting)
            /\ id \notin SeqToSet(supportMap[id].supportedBy)

\* a graph with support edges that holds a piece no thicker than 1 inch, which
\* passes the geometric test against itself
C8_Witness ==
    /\ Analyzed
    /\ \E id \in NodeIds :
           /\ supportMap[id].piece.height <= Inch(1)
           /\ isSupporting(supportMap[id].piece, supportMap[id].piece)
           /\ supportMap[id].supporting # <<>>

C10_SupportIffAdjacentAndOverlapping ==
    GraphBuilt =>
        \A i \in 1..Len(pieces), j \in 1..Len(pieces) :
            i # j =>
                LET lower == pieces[i]
                    upper == pieces[j]
                    gap   == lower.y + lower.height - upper.y
                    ovX   == Min(2 * lower.x + lower.width, 2 * upper.x + upper.width)
                             - Max(2 * lower.x - lower.width, 2 * upper.x - upper.width)
                    ovZ   == Min(2 * lower.z + lower.depth, 2 * upper.z + upper.depth)
                             - Max(2 * lower.z - lower.depth, 2 * upper.z - upper.depth)
                IN  (upper.id \in SeqToSet(supportMap[lower.id].supporting))
                        <=> (gap >= -4 /\ gap <= 4 /\ ovX >= 16 /\ ovZ >= 16)

\* a recorded support pair exactly on the thresholds: 1 inch apart vertically
\* and overlapping by exactly 2 inches in X
C10_Witness ==
    /\ Analyzed
    /\ \E i \in 1..Len(pieces), j \in 1..Len(pieces) :
           /\ i # j
           /\ pieces[j].id \in SeqToSet(supportMap[pieces[i].id].supporting)
           /\ Abs(pieces[i].y + pieces[i].height - pieces[j].y) = Inch(1)
           /\ OverlapX(pieces[i], pieces[j]) = 2 * Inch(2)

----------------------------------------------------------------------------
(* C11, C12: the connection suggester *)

\* suggestConnection has returned for both argument pairs
Suggested == fnRet.fn = "suggestConnection"

\* the tier table: area in square inches scaled by 64, weight in tenths of a
\* pound
TierKind(area, weight) ==
    CASE area < 4 * 64 /\ weight > 200                       -> "metal_plate"
      [] area < 4 * 64 /\ weight <= 200                      -> "brackets_heavy"
      [] area >= 4 * 64 /\ area < 16 * 64 /\ weight > 150    -> "brackets_heavy"
      [] area >= 4 * 64 /\ area < 16 * 64 /\ weight <= 150   -> "brackets_light"
      [] area >= 16 * 64 /\ weight > 100                     -> "glue_and_screws"
      [] area >= 16 * 64 /\ weight <= 100                    -> "screws"

\* C11: for every overlap area and upper piece, suggestConnection returns the
\* kind the tier table gives for the area and the upper piece's own weight
C11_SuggestionFollowsTiers ==
    Suggested =>
        /\ fnRet.first = TierKind(fnCall.first.overlapArea,
                                  calculatePieceWeight(fnCall.first.upperPiece))
        /\ fnRet.second = TierKind(fnCall.second.overlapArea,
                                   calculatePieceWeight(fnCall.second.upperPiece))

\* a suggestion has been made for an area of exactly 4 square inches and a
\* weight of exactly 15 pounds
C11_Witness ==
    /\ Suggested
    /\ fnCall.first.overlapArea = 4 * 64
    /\ calculatePieceWeight(fnCall.first.upperPiece) = 150
    /\ fnRet.first = "brackets_light"

\* C12: of two suggestions, the one for the smaller or equal area and the
\* heavier or equal upper piece is at least as strong and at least as costly
C12_SuggestionMonotone ==
    (/\ Suggested
     /\ fnCall.first.overlapArea <= fnCall.second.overlapArea
     /\ calculatePieceWeight(fnCall.first.upperPiece)
           >= calculatePieceWeight(fnCall.second.upperPiece))
    => (/\ connectionTypes[fnRet.first].strength
              >= connectionTypes[fnRet.second].strength
        /\ connectionTypes[fnRet.first].cost
              >= connectionTypes[fnRet.second].cost)

----------------------------------------------------------------------------
(* C13 - C18: the report *)

\* generateStressReport has returned
Returned == pc = "returned"

\* C13: no report is computed from a maximum over an empty point-load list;
\* a call with the empty list either returns nothing or returns what the
\* default list [15] gives
C13_EmptyPointLoadsGuarded ==
    Returned =>
        /\ report.summary.maxCatWeight # NegInfinity
        /\ catWeights = <<>> =>
               report = generateStressReport(
                            pieces, <<15>>, supportMap,
                            testCatWeights(pieces, <<15>>, supportMap))

\* the greatest entry of a non-empty list
Greatest(s) == CHOOSE x \in SeqToSet(s) : \A y \in SeqToSet(s) : x >= y

\* two testCatWeights results agree in everything but totalCapacity
SameVerdict(a, b) ==
    /\ a.passed = b.passed
    /\ a.weakPoints = b.weakPoints
    /\ a.catDistribution = b.catDistribution
    /\ a.recommendations = b.recommendations

\* C14: the verdict of a report depends on the point-load list only through
\* its maximum: every non-empty list with the same maximum, the one-entry
\* list of the maximum included, gives the same passed, weakPoints,
\* catDistribution and recommendations on the same pieces
C14_OnlyMaximumMatters ==
    (Returned /\ catWeights # <<>>) =>
        /\ report.summary.maxCatWeight = Greatest(catWeights)
        /\ \A other \in CatWeightLists \cup {<<Greatest(catWeights)>>} :
               Greatest(other) = Greatest(catWeights) =>
                   SameVerdict(report.testResults,
                               testCatWeights(pieces, other, supportMap))

\* a report for the loads 15 and 45 lb, in that order, that fails on a
\* resting spot which would hold 15 lb
C14_Witness ==
    /\ Returned
    /\ catWeights = <<15, 45>>
    /\ ~report.summary.passed
    /\ testCatWeights(pieces, <<15>>, supportMap).passed

\* the piece is a bedding piece of the catalog, in fabric
IsFabricBedding(p) == Includes(p.variantId, "bedding") /\ p.material = "fabric"

\* the greatest point load is more than twice capacity/2 of the piece
FarExceedsCapacity(p, maxSingleCat) == 16 * maxSingleCat > MaxCapacity(p)

\* capacity/2 - totalLoad in whole pounds, rounded down
FlooredHeadroom(node, p) == (5 * MaxCapacity(p) - 16 * node.totalLoad) \div 160

\* C15: after testCatWeights, every fabric bedding piece whose capacity/2 is
\* far below the greatest point load is listed in weakPoints with a positive
\* required value and the floored headroom as currentCapacity, and passed is
\* false
C15_FabricBeddingIsWeakPoint ==
    Tested =>
        \A i \in 1..Len(pieces) :
            (/\ IsFabricBedding(pieces[i])
             /\ FarExceedsCapacity(pieces[i], MaxSeq(catWeights)))
            => /\ ~results.passed
               /\ \E k \in 1..Len(results.weakPoints) :
                      /\ results.weakPoints[k].pieceId = pieces[i].id
                      /\ results.weakPoints[k].required > 0
                      /\ results.weakPoints[k].currentCapacity =
                             FlooredHeadroom(supportMap[pieces[i].id], pieces[i])

\* C16: a call of generateStressReport that follows another on the same piece
\* list and point loads returns the same report as the call before
C16_SameInputsSameReport ==
    (Returned /\ calls >= 2) => report = lastReport

\* a second report on a design with loaded supports and a failing resting
\* spot
C16_Witness ==
    /\ Returned
    /\ calls = 2
    /\ report.connections.count > 0
    /\ ~report.summary.passed
    /\ \E id \in DOMAIN report.supportStructure :
           report.supportStructure[id].totalLoad > Weight(id)

C18_EmptyDesignReport ==
    (Returned /\ pieces = <<>> /\ catWeights # <<>>) =>
        /\ report.summary.passed
        /\ report.summary.totalStructureWeight = 0
        /\ DOMAIN report.supportStructure = {}
        /\ report.criticalPoints = <<>>
        /\ report.testResults.weakPoints = <<>>
        /\ report.recommendations = <<>>
        /\ report.connections.connections = <<>>
        /\ report.connections.count = 0
        /\ report.connections.totalHardwareCost = 0

\* a report has been returned on the empty piece list for two point loads
C18_Witness ==
    /\ Returned
    /\ pieces = <<>>
    /\ catWeights = <<15, 45>>
    /\ report.summary.numberOfCats = 2

----------------------------------------------------------------------------
(* C19: vertical stacks *)

\* the pieces share one x/z footprint and each but the lowest rests with its
\* y exactly on the top of another
IsVerticalStack(ps) ==
    /\ \A i, j \in 1..Len(ps) :
           /\ ps[i].x = ps[j].x /\ ps[i].z = ps[j].z
           /\ ps[i].width = ps[j].width /\ ps[i].depth = ps[j].depth
           /\ i # j => ps[i].y # ps[j].y
    /\ \A i \in 1..Len(ps) :
           \/ \A j \in 1..Len(ps) : ps[i].y <= ps[j].y
           \/ \E j \in 1..Len(ps) : ps[j].y + ps[j].height = ps[i].y

\* the ids of the pieces resting exactly on the top of piece p
DirectlyAbove(ps, p) ==
    {ps[j].id : j \in {k \in 1..Len(ps) : ps[k].y = p.y + p.height}}

\* the ids of the pieces higher up than piece p
HigherUp(ps, p) == {ps[j].id : j \in {k \in 1..Len(ps) : ps[k].y > p.y}}

\* C19: in an analyzed vertical stack of two or more pieces, every piece but
\* the top one supports exactly the piece directly above it, and every piece
\* bears its own weight plus the weights of all pieces higher up (the top
\* piece: its own weight)
C19_StackLoads ==
    (Analyzed /\ Len(pieces) >= 2 /\ IsVerticalStack(pieces)) =>
        \A i \in 1..Len(pieces) :
            /\ SeqToSet(supportMap[pieces[i].id].supporting)
                   = DirectlyAbove(pieces, pieces[i])
            /\ Len(supportMap[pieces[i].id].supporting)
                   = Cardinality(DirectlyAbove(pieces, pieces[i]))
            /\ supportMap[pieces[i].id].totalLoad
                   = Weight(pieces[i].id)
                     + WeightOfSet(HigherUp(pieces, pieces[i]))

----------------------------------------------------------------------------
(* C20: the weight estimator *)

\* calculatePieceWeight has returned for the piece as hollow and as solid
Weighed == fnRet.fn = "calculatePieceWeight"

\* C20: for every piece with positive dimensions, of any material and shape,
\* the weight computed with hollow = true is not negative and not above the
\* weight computed with hollow = false
C20_HollowWithinSolid ==
    Weighed => (fnRet.hollow >= 0 /\ fnRet.hollow <= fnRet.solid)

\* C21: with shape, hollow flag and material fixed, a piece that is larger
\* in one of width, height and depth and equal in the other two weighs
\* strictly more
C21_WeightStrictlyIncreasing ==
    (Weighed /\ fnCall.larger # fnCall.piece) =>
        /\ fnRet.hollowLarger > fnRet.hollow
        /\ fnRet.solidLarger > fnRet.solid

----------------------------------------------------------------------------
(* C22, C23: the traversal of calculateLoadDistribution *)

\* no node is above itself
Acyclic == \A id \in NodeIds : id \notin Above(id)

\* C22: on an acyclic support graph, every node the loop has finalized (its
\* id is in `processed`) was finalized after every node in its `supporting`
\* list: at no moment is a finalized node's supported node still unfinalized
C22_SupportedFinalizedFirst ==
    Acyclic =>
        \A id \in processed :
            SeqToSet(supportMap[id].supporting) \subseteq processed

\* C23: calculateLoadDistribution comes to its end on every support graph,
\* cyclic ones included, and a step of its loop changes a node only when it
\* finalizes it: the node was not in `processed` and is in it afterwards, so
\* a node dequeued again is not computed again
C23_TerminatesAssigningOnce ==
    /\ <>Analyzed
    /\ [][pc = "loop" =>
             \A id \in NodeIds :
                 supportMap'[id] # supportMap[id] =>
                     (id \notin processed /\ id \in processed')]_vars

\* in a graph with a cycle, the loop is about to dequeue a node that is
\* finalized already
C23_Witness ==
    /\ pc = "loop"
    /\ ~Acyclic
    /\ processingQueue # <<>>
    /\ Head(processingQueue) \in processed

----------------------------------------------------------------------------
(* C24, C25: the results of testCatWeights *)

\* the ids of the nodes, in node order, whose stressLevel exceeds one half
StressedIds ==
    LET Test(id) == 2 * supportMap[id].stressLevel.num
                        > supportMap[id].stressLevel.den
    IN  SelectSeq(NodeOrder(pieces), Test)

\* the text a node's entry must carry
ExpectedSuggestion(id) ==
    IF 4 * supportMap[id].stressLevel.num > 3 * supportMap[id].stressLevel.den
    THEN "Critical" ELSE "Warning"

\* C24: the recommendations of testCatWeights are the 'Overall Design' entry
\* (pieceId null) first if and only if passed is false, then one entry for
\* each node with stressLevel > 0.5 and none for any other node, with the
\* 'Critical' text if stressLevel > 0.75 and the 'Warning' text otherwise
C24_RecommendationsStructure ==
    Tested =>
        LET recs == results.recommendations
            lead == IF results.passed THEN 0 ELSE 1
        IN  /\ Len(recs) = lead + Len(StressedIds)
            /\ lead = 1 => (recs[1].pieceId = 0 /\ recs[1].suggestion = "Overall")
            /\ \A k \in 1..Len(StressedIds) :
                   /\ recs[lead + k].pieceId = StressedIds[k]
                   /\ recs[lead + k].suggestion
                          = ExpectedSuggestion(StressedIds[k])

\* a failed test on two pieces whose recommendations are the overall entry
\* and one 'Warning' entry: the other node is not stressed above one half
C24_Witness ==
    /\ Tested
    /\ ~results.passed
    /\ Len(pieces) = 2
    /\ Len(results.recommendations) = 2
    /\ results.recommendations[1].pieceId = 0
    /\ results.recommendations[2].suggestion = "Warning"

\* C25: for every resting spot with a positive maxCatWeight, the test run
\* again on the same graph with exactly that weight as the greatest point
\* load finds canHoldCat true for the spot, and with any greater load finds
\* it false
C25_MaxCatWeightIsHeaviest ==
    Tested =>
        \A id \in RestingSpotIds :
            LET entry == results.catDistribution[id]
                spot  == PieceById(pieces, id)
            IN  entry.maxCatWeight.num > 0 =>
                    /\ CanHoldLoad(supportMap[id], spot,
                                   entry.maxCatWeight.num,
                                   entry.maxCatWeight.den)
                    /\ ~CanHoldLoad(supportMap[id], spot,
                                    entry.maxCatWeight.num + 1,
                                    entry.maxCatWeight.den)

----------------------------------------------------------------------------
(* C26, C27: connections *)

\* the (lower, upper) pairs of the support graph
SupportPairs ==
    {pr \in NodeIds \X NodeIds :
        pr[2] \in SeqToSet(supportMap[pr[1]].supporting)}

\* the contact records of the graph that join the pair
ContactsOf(pr) ==
    {supportMap[pr[1]].connections[k] :
        k \in {j \in 1..Len(supportMap[pr[1]].connections) :
                  supportMap[pr[1]].connections[j].upperPieceId = pr[2]}}

RECURSIVE CostOfPairs(_)
\* the sum, over the pairs, of the connectionTypes cost of the pair's
\* suggested connection
CostOfPairs(S) ==
    IF S = {} THEN 0
    ELSE LET pr == CHOOSE x \in S : TRUE
             contact == CHOOSE c \in ContactsOf(pr) : TRUE
         IN  connectionTypes[contact.suggestedConnection].cost
             + CostOfPairs(S \ {pr})

\* C26: the report's connections are one per (lower, upper) support pair of
\* the graph, each with between = [lower id, upper id] and the kind of the
\* pair's contact; count is the total length of the `supporting` lists and
\* totalHardwareCost the sum of the connectionTypes costs of the kinds
C26_OneConnectionPerPair ==
    Returned =>
        LET conns == report.connections.connections
        IN  /\ report.connections.count = Len(conns)
            /\ Len(conns) = Cardinality(SupportPairs)
            /\ Len(conns) = SumSeq([k \in 1..Len(NodeOrder(pieces)) |->
                               Len(supportMap[NodeOrder(pieces)[k]].supporting)])
            /\ {conns[k].between : k \in 1..Len(conns)} = SupportPairs
            /\ \A k \in 1..Len(conns) :
                   \E c \in ContactsOf(conns[k].between) :
                       conns[k].type = c.suggestedConnection
            /\ report.connections.totalHardwareCost = CostOfPairs(SupportPairs)

\* a report on a base carrying two posts: two connections, screws at 2
\* dollars each
C26_Witness ==
    /\ Returned
    /\ report.connections.count = 2
    /\ report.connections.totalHardwareCost = 4
    /\ \E id \in NodeIds : Len(supportMap[id].supporting) = 2

\* the contact records of all nodes
AllContacts ==
    UNION {SeqToSet(supportMap[id].connections) : id \in NodeIds}

\* C27: every contact record of a built graph has an overlap area of at
\* least 4 square inches and suggests brackets_heavy, brackets_light,
\* glue_and_screws or screws: never metal_plate, bolts or none
C27_ContactAreaAtLeastFour ==
    GraphBuilt =>
        \A c \in AllContacts :
            /\ c.area >= 4 * 64
            /\ c.suggestedConnection \in
                   {"brackets_heavy", "brackets_light", "glue_and_screws",
                    "screws"}

\* a graph with a contact of exactly 4 square inches
C27_Witness ==
    /\ GraphBuilt
    /\ \E c \in AllContacts :
           c.area = 4 * 64 /\ c.suggestedConnection = "brackets_light"


\* the design is being edited (the piece list is the designer's)
Designing == pc = "design"

\* the piece keeps the seven fields a lock protects
SamePlacement(p, q) ==
    /\ p.x = q.x /\ p.y = q.y /\ p.z = q.z
    /\ p.rotationY = q.rotationY
    /\ p.width = q.width /\ p.height = q.height /\ p.depth = q.depth

\* C28: starting from an empty design, after any sequence of
\* piece-management operations with numeric arguments every piece of the
\* list has width > 0, height > 0, depth > 0 and y >= 0.
C28_PositiveDimensionsAboveGround ==
    Designing =>
        \A i \in 1..Len(pieces) :
            /\ pieces[i].width > 0
            /\ pieces[i].height > 0
            /\ pieces[i].depth > 0
            /\ pieces[i].y >= 0

\* C30: a piece that was locked when an operation other than
\* togglePieceLock, clearAllPieces and loadDesign started is still in the
\* list after it, with the same x, y, z, rotationY, width, height and depth.
C30_LockedPieceUntouched ==
    (Designing /\ lastOp.name \notin {"none", "togglePieceLock",
                                       "clearAllPieces", "loadDesign"}) =>
        \A i \in 1..Len(lastOp.before) :
            lastOp.before[i].locked =>
                \E j \in 1..Len(pieces) :
                    /\ pieces[j].id = lastOp.before[i].id
                    /\ SamePlacement(pieces[j], lastOp.before[i])


\* C29: in StressTestPanel, from the default list [15], after any sequence
\* of handleWeightChange, handleAddCat and handleRemoveCat events the
\* point-load list passed to generateStressReport is non-empty and every
\* entry is a number >= 1.
C29_PanelWeightsPositive ==
    /\ Len(catWeights) >= 1
    /\ \A i \in 1..Len(catWeights) : catWeights[i] \in Int /\ catWeights[i] >= 1

\* generateStressReport is entered with the list a rejected input (empty,
\* zero, negative or not a number) was floored to, and has run on it before
C29_Witness ==
    /\ pc = "start"
    /\ calls >= 2
    /\ catWeights = <<1>>

====
